---- MODULE Spec2Model ----
(***************************************************************************)
(* Webhook dispatch and lifecycle core of Receiver6Webhook.                *)
(*                                                                         *)
(* Two near-duplicate entry points exist, src/main.py and src/bot.py; the  *)
(* variable cfg.entry says which of them the process runs.  The Settings   *)
(* Store (database), the chat platform (ptb_app.bot) and the login module  *)
(* are collaborators: every call into them either returns or raises, and   *)
(* the model draws that outcome nondeterministically.                      *)
(***************************************************************************)
EXTENDS Naturals, Sequences, FiniteSets, Bags, TLC

\* ------------------------------------------------------------------ bounds
MaxAdmins == 2
MaxCredentials == 2
MaxStartups == 2
MaxAccounts == 2
MaxInFlight == 2
MaxTopics == 2
MaxMatches == 2

AdminIds == 1..MaxAdmins
Accounts == 1..MaxAccounts
TopicIds == 1..MaxTopics

\* ------------------------------------------------------------ configuration
WEBHOOK_URL == "https://bot.example/"
ALL_TYPES == "ALL_TYPES"

VARIABLES
    cfg,        \* config module: entry point, CRON_SECRET, INITIAL_ADMIN_ID
    lpc,        \* position of the process in module load / lifespan
    startups,   \* number of process starts so far
    db,         \* Settings Store: schema, settings, support id, admins,
                \* credentials, audit
    botData,    \* ptb_app.bot_data has been loaded by this process
    webhook,    \* URL registered with the platform, or "none"
    lastDelete, \* outcome of the most recent delete_webhook call
    calls,      \* calls this process made during load/lifespan (a mock's log)
    snapshot,   \* list returned by get_all_admins, being iterated
    idx,        \* number of admins of snapshot already handled
    inflight,   \* bag of the requests suspended at an await
    last,       \* the request answered by the latest step, with what it did
    pool0,      \* size of the credential pool before the first start
    topics,     \* Settings Store: the daily topic records, by id
    handlers,   \* ptb_app.handlers: the registered handlers with their groups
    feed        \* what the platform delivers: "plain" or "all" updates

vars == <<cfg, lpc, startups, db, botData, webhook, lastDelete, calls, snapshot, idx,
          inflight, last, pool0, topics, handlers, feed>>

lifeVars == <<cfg, lpc, startups, db, botData, webhook, lastDelete, calls, snapshot, idx,
              handlers>>

reqVars == <<inflight, last>>

\* ----------------------------------------------------------------- helpers
Max(a, b) == IF a >= b THEN a ELSE b

MinOf(S) == CHOOSE x \in S : \A y \in S : x <= y

RECURSIVE SortedSeq(_)
SortedSeq(S) == IF S = {} THEN <<>>
                ELSE <<MinOf(S)>> \o SortedSeq(S \ {MinOf(S)})

Call(op, arg, ok) == [op |-> op, arg |-> arg, ok |-> ok]

Calls(op) == {i \in DOMAIN calls : calls[i].op = op}

NCalls(op) == Cardinality(Calls(op))

Called(op) == Calls(op) # {}

Failed(op) == \E i \in Calls(op) : ~calls[i].ok

\* The scope argument of set_my_commands.
DefaultScope == [scope |-> "default", chat_id |-> 0]

ChatScope(id) == [scope |-> "chat", chat_id |-> id]

\* The Settings Store's side of the calls that change it (the database
\* module): add_admin adds the id to the admin list, add_api_credential adds
\* one credential to the rotation pool.
add_admin(admins, id) == admins \cup {id}

add_api_credential(creds) == creds + 1

\* A startup step raised: the exception leaves lifespan before the yield.
Abort(log) ==
    /\ lpc' = "aborted"
    /\ calls' = log

\* ---------------------------------------------------------------- requests
NoHeader == "<no header>"

\* A request as it enters its handler.
Request(kind, job, auth, body) ==
    [kind |-> kind, job |-> job, auth |-> auth, body |-> body, pc |-> "new",
     pending |-> {}, stuck |-> {}, failed |-> {}, runs |-> <<>>, store |-> FALSE,
     login |-> FALSE, clears |-> 0, deleted |-> 0, matches |-> {}, fired |-> <<>>]

\* The fields of a request: kind ("webhook" or "cron"), the job name of the
\* path and the Authorization header (cron), the body (webhook), pc (the await
\* it is suspended at), pending (the collaborator calls it awaits), stuck (the
\* stuck accounts it has fetched and not yet handled), failed (the accounts
\* whose collaborator call raised), runs (the jobs, or process_update, it has
\* invoked, in order), store and login (whether it has called the Settings
\* Store, the login module), clears (the number of clear_old_topics calls it
\* has made), deleted (the number of records those calls removed), matches
\* (the handlers whose predicate its update satisfies) and fired (the handlers
\* process_update has run for it, in order).

\* What is known of an answered request: its state when the response went
\* out (pending: the collaborator calls it had started and was no longer
\* awaiting; stuck: the stuck accounts it had fetched and not handled), the
\* status of the response, and how the handler ended: "returned" (its code
\* ran to a return statement after the work), "raised" (an exception left
\* it or reached its except clause) or "rejected" (an HTTPException, or no
\* route).
Response(r, status, end) ==
    [kind |-> r.kind, job |-> r.job, auth |-> r.auth, body |-> r.body,
     status |-> status, end |-> end, runs |-> r.runs, store |-> r.store,
     login |-> r.login, pending |-> r.pending, stuck |-> r.stuck,
     failed |-> r.failed, clears |-> r.clears, deleted |-> r.deleted,
     matches |-> r.matches, fired |-> r.fired]

NoResponse == Response(Request("none", "", NoHeader, ""), 0, "none")

\* ---------------------------------------------------------- handler registry
\* The handlers of the module, by the name of what they answer to, in the
\* order of their lists: admin.get_admin_handlers() with the zip command
\* appended, the support admin's reply handler, and user_handlers.
AdminHandlers == <<"admin", "zip">>

AdminChatHandler == <<"admin_chat">>

UserHandlers ==
    <<"start", "balance", "cap", "help", "rules", "cancel", "reply", "withdrawal",
      "callback_query", "text">>

HandlerNames ==
    {AdminHandlers[i] : i \in DOMAIN AdminHandlers}
        \cup {AdminChatHandler[i] : i \in DOMAIN AdminChatHandler}
        \cup {UserHandlers[i] : i \in DOMAIN UserHandlers}

\* An update is known by the handlers whose predicate it satisfies.
Updates == {m \in SUBSET HandlerNames : Cardinality(m) <= MaxMatches}

\* The one update of a run whose dispatch is not looked into.
PlainFeed == {{"start"}}

\* The updates the platform delivers under feed f.
Delivered(f) == IF f = "plain" THEN PlainFeed ELSE Updates

\* The values the store may hold for 'support_id', as character sequences;
\* None and the empty string are both <<>>.
SupportIds == {<<>>, <<"4", "2">>, <<"x", "4">>}

Digits == {"0", "1", "2", "3", "4", "5", "6", "7", "8", "9"}

\* str.isdigit(): every character is a digit and there is at least one.
isdigit(str) == str # <<>> /\ \A i \in DOMAIN str : str[i] \in Digits

\* ptb_app.add_handlers(list, group=g): the handlers are appended, in order.
add_handlers(reg, list, g) ==
    reg \o [i \in DOMAIN list |-> [group |-> g, name |-> list[i]]]

\* Registry with user_handlers added to group 0.
RegistryOneGroup(support) ==
    LET r0 == add_handlers(<<>>, AdminHandlers, 0)
        r1 == IF support # <<>> /\ isdigit(support)
              THEN add_handlers(r0, AdminChatHandler, 1)
              ELSE r0
    IN add_handlers(r1, UserHandlers, 0)

\* The registrations of the module, in order; support is the value of the
\* 'support_id' setting.
Registry(support) ==
    LET r0 == add_handlers(<<>>, AdminHandlers, 0)
        r1 == IF support # <<>> /\ isdigit(support)
              THEN add_handlers(r0, AdminChatHandler, 1)
              ELSE r0
    IN add_handlers(r1, UserHandlers, 2)

\* Application.process_update: the groups are gone through in ascending
\* order, and in each group the first handler whose predicate the update
\* satisfies is run, no other of that group.
Groups(reg) == {reg[i].group : i \in DOMAIN reg}

FirstMatch(reg, g, matches) ==
    LET I == {i \in DOMAIN reg : reg[i].group = g /\ reg[i].name \in matches} IN
    IF I = {} THEN <<>> ELSE <<reg[MinOf(I)].name>>

RECURSIVE Resolve(_, _, _)
Resolve(reg, G, matches) ==
    IF G = {} THEN <<>>
    ELSE FirstMatch(reg, MinOf(G), matches) \o Resolve(reg, G \ {MinOf(G)}, matches)

process_update(reg, matches) == Resolve(reg, Groups(reg), matches)

\* --------------------------------------------------------------------- Init
Init ==
    /\ cfg \in [entry : {"main", "bot"},
                CRON_SECRET : {"", "S"},
                INITIAL_ADMIN_ID : {0, 1}]
    /\ lpc = "load"
    /\ startups = 1
    /\ db \in [init : {FALSE},
               settings : {{}},
               support : SupportIds,
               admins : SUBSET AdminIds,
               creds : 0..MaxCredentials,
               audit : {0}]
    /\ botData = FALSE
    /\ webhook = "none"
    /\ lastDelete = "none"
    /\ calls = <<>>
    /\ snapshot = <<>>
    /\ idx = 0
    /\ inflight = EmptyBag
    /\ last = NoResponse
    /\ pool0 = db.creds
    /\ topics \in [TopicIds -> {"fresh", "stale"}]
    /\ handlers = <<>>
    /\ feed \in {"plain", "all"}

\* ------------------------------------------------------- module load (import)
\* Building ptb_app and registering the handler groups runs when the module
\* is imported, before lifespan: it reads 'support_id' from the store.
LoadModule ==
    /\ lpc = "load"
    /\ \E ok \in BOOLEAN :
         /\ calls' = Append(calls, Call("get_setting", "support_id", ok))
         /\ IF ok
            THEN /\ lpc' = "init_db"
                 /\ handlers' = Registry(db.support)
            ELSE /\ lpc' = "aborted"
                 /\ handlers' = add_handlers(<<>>, AdminHandlers, 0)
    /\ UNCHANGED <<cfg, startups, db, botData, webhook, lastDelete, snapshot, idx, reqVars,
                   pool0, topics, feed>>

\* ------------------------------------------------------------ lifespan startup
\* InitDb with the failure of init_db caught and startup going on.
InitDbSwallowed ==
    /\ lpc = "init_db"
    /\ \E ok \in BOOLEAN :
         /\ calls' = Append(calls, Call("init_db", 0, ok))
         /\ db' = [db EXCEPT !.init = ok]
         /\ lpc' = "sync_settings"
    /\ UNCHANGED <<cfg, startups, botData, webhook, lastDelete, snapshot, idx, reqVars,
                   pool0, topics, handlers, feed>>

\* Step 1: database.init_db()
InitDb ==
    /\ lpc = "init_db"
    /\ \E ok \in BOOLEAN :
         LET log == Append(calls, Call("init_db", 0, ok)) IN
         IF ok
         THEN /\ db' = [db EXCEPT !.init = TRUE]
              /\ lpc' = "sync_settings"
              /\ calls' = log
         ELSE /\ Abort(log)
              /\ UNCHANGED db
    /\ UNCHANGED <<cfg, startups, botData, webhook, lastDelete, snapshot, idx, reqVars,
                   pool0, topics, handlers, feed>>

\* Step 2: the two set_setting calls; the second runs only if the first returned.
SyncSettings ==
    /\ lpc = "sync_settings"
    /\ \E ok1 \in BOOLEAN, ok2 \in BOOLEAN :
         LET log1 == Append(calls, Call("set_setting", "session_log_channel_id", ok1))
             log2 == Append(log1, Call("set_setting", "enable_session_forwarding", ok2))
         IN
         IF ~ok1
         THEN /\ Abort(log1)
              /\ UNCHANGED db
         ELSE IF ~ok2
         THEN /\ Abort(log2)
              /\ db' = [db EXCEPT !.settings = @ \cup {"session_log_channel_id"}]
         ELSE /\ calls' = log2
              /\ lpc' = "add_admin"
              /\ db' = [db EXCEPT !.settings = @ \cup {"session_log_channel_id",
                                                         "enable_session_forwarding"}]
    /\ UNCHANGED <<cfg, startups, botData, webhook, lastDelete, snapshot, idx, reqVars,
                   pool0, topics, handlers, feed>>

\* Step 3: grant the initial admin; the audit entry is written on first grant only.
AddAdmin ==
    /\ lpc = "add_admin"
    /\ IF cfg.INITIAL_ADMIN_ID = 0
       THEN /\ lpc' = "load_context"
            /\ UNCHANGED <<db, calls>>
       ELSE \E ok1 \in BOOLEAN, ok2 \in BOOLEAN :
            LET id == cfg.INITIAL_ADMIN_ID
                granted == id \notin db.admins
                log1 == Append(calls, Call("add_admin", id, ok1))
                log2 == Append(log1, Call("log_admin_action", id, ok2))
            IN
            IF ~ok1
            THEN /\ Abort(log1)
                 /\ UNCHANGED db
            ELSE IF ~granted
            THEN /\ calls' = log1
                 /\ lpc' = "load_context"
                 /\ UNCHANGED db
            ELSE IF ~ok2
            THEN /\ Abort(log2)
                 /\ db' = [db EXCEPT !.admins = add_admin(@, id)]
            ELSE /\ calls' = log2
                 /\ lpc' = "load_context"
                 /\ db' = [db EXCEPT !.admins = add_admin(@, id), !.audit = @ + 1]
    /\ UNCHANGED <<cfg, startups, botData, webhook, lastDelete, snapshot, idx, reqVars,
                   pool0, topics, handlers, feed>>

\* Step 4: load settings and country configuration into ptb_app.bot_data.
LoadContext ==
    /\ lpc = "load_context"
    /\ \E ok1 \in BOOLEAN, ok2 \in BOOLEAN :
         LET log1 == Append(calls, Call("get_all_settings", 0, ok1))
             log2 == Append(log1, Call("get_countries_config", 0, ok2))
         IN
         IF ~ok1
         THEN /\ Abort(log1)
              /\ UNCHANGED botData
         ELSE IF ~ok2
         THEN /\ Abort(log2)
              /\ UNCHANGED botData
         ELSE /\ calls' = log2
              /\ lpc' = "seed_credential"
              /\ botData' = TRUE
    /\ UNCHANGED <<cfg, startups, db, webhook, lastDelete, snapshot, idx, reqVars, pool0,
                   topics, handlers, feed>>

\* SeedCredential without the test for an empty pool.
SeedCredentialAlways ==
    /\ lpc = "seed_credential"
    /\ \E ok1 \in BOOLEAN, ok2 \in BOOLEAN :
         LET log1 == Append(calls, Call("get_all_api_credentials", db.creds, ok1))
             log2 == Append(log1, Call("add_api_credential", "default", ok2))
         IN
         IF ~ok1
         THEN /\ Abort(log1)
              /\ UNCHANGED db
         ELSE IF ~ok2
         THEN /\ Abort(log2)
              /\ UNCHANGED db
         ELSE /\ calls' = log2
              /\ lpc' = "default_menu"
              /\ db' = [db EXCEPT !.creds = add_api_credential(@)]
    /\ UNCHANGED <<cfg, startups, botData, webhook, lastDelete, snapshot, idx, reqVars,
                   pool0, topics, handlers, feed>>

\* Step 5: seed one default credential when the rotation pool is empty.
SeedCredential ==
    /\ lpc = "seed_credential"
    /\ \E ok1 \in BOOLEAN, ok2 \in BOOLEAN :
         LET log1 == Append(calls, Call("get_all_api_credentials", db.creds, ok1))
             log2 == Append(log1, Call("add_api_credential", "default", ok2))
         IN
         IF ~ok1
         THEN /\ Abort(log1)
              /\ UNCHANGED db
         ELSE IF db.creds # 0
         THEN /\ calls' = log1
              /\ lpc' = "default_menu"
              /\ UNCHANGED db
         ELSE IF ~ok2
         THEN /\ Abort(log2)
              /\ UNCHANGED db
         ELSE /\ calls' = log2
              /\ lpc' = "default_menu"
              /\ db' = [db EXCEPT !.creds = add_api_credential(@)]
    /\ UNCHANGED <<cfg, startups, botData, webhook, lastDelete, snapshot, idx, reqVars,
                   pool0, topics, handlers, feed>>

\* Step 6a: the platform-wide default menu, outside any try block.
DefaultMenu ==
    /\ lpc = "default_menu"
    /\ \E ok \in BOOLEAN :
         LET log == Append(calls, Call("set_my_commands", DefaultScope, ok)) IN
         IF ok
         THEN /\ calls' = log
              /\ lpc' = "get_all_admins"
         ELSE Abort(log)
    /\ UNCHANGED <<cfg, startups, db, botData, webhook, lastDelete, snapshot, idx,
                   reqVars, pool0, topics, handlers, feed>>

\* Step 6b: the for statement evaluates database.get_all_admins() once.
GetAllAdmins ==
    /\ lpc = "get_all_admins"
    /\ \E ok \in BOOLEAN :
         LET log == Append(calls, Call("get_all_admins", 0, ok)) IN
         IF ok
         THEN /\ calls' = log
              /\ snapshot' = SortedSeq(db.admins)
              /\ idx' = 0
              /\ lpc' = IF db.admins = {} THEN "set_webhook" ELSE "admin_menus"
         ELSE /\ Abort(log)
              /\ UNCHANGED <<snapshot, idx>>
    /\ UNCHANGED <<cfg, startups, db, botData, webhook, lastDelete, reqVars, pool0,
                   topics, handlers, feed>>

\* AfterAdminMenu with the loop left at the first failed publish.
AfterAdminMenuBreak(i, ok) ==
    IF ok /\ i < Len(snapshot) THEN "admin_menus" ELSE "set_webhook"

\* Where the admin loop goes after handling entry i of the list; ok says
\* whether the publish returned.  The except clause swallows the failure.
AfterAdminMenu(i, ok) ==
    IF i < Len(snapshot) THEN "admin_menus" ELSE "set_webhook"

\* Step 6c: one iteration of the admin loop, try/except around the publish.
PublishAdminMenu ==
    /\ lpc = "admin_menus"
    /\ idx < Len(snapshot)
    /\ \E ok \in BOOLEAN :
         /\ calls' = Append(calls, Call("set_my_commands", ChatScope(snapshot[idx + 1]), ok))
         /\ idx' = idx + 1
         /\ lpc' = AfterAdminMenu(idx + 1, ok)
    /\ UNCHANGED <<cfg, startups, db, botData, webhook, lastDelete, snapshot, reqVars,
                   pool0, topics, handlers, feed>>

\* WebhookArgs without drop_pending_updates.
WebhookArgsKeepPending ==
    [url |-> WEBHOOK_URL, allowed_updates |-> ALL_TYPES, drop_pending_updates |-> FALSE]

\* The arguments of the set_webhook call.
WebhookArgs ==
    [url |-> WEBHOOK_URL, allowed_updates |-> ALL_TYPES, drop_pending_updates |-> TRUE]

\* Step 7: register the webhook; on return lifespan yields and the
\* application serves.
SetWebhook ==
    /\ lpc = "set_webhook"
    /\ \E ok \in BOOLEAN :
         LET log == Append(calls, Call("set_webhook", WebhookArgs, ok)) IN
         IF ok
         THEN /\ calls' = log
              /\ webhook' = WebhookArgs.url
              /\ lpc' = "serving"
         ELSE /\ Abort(log)
              /\ UNCHANGED webhook
    /\ UNCHANGED <<cfg, startups, db, botData, lastDelete, snapshot, idx, reqVars, pool0,
                   topics, handlers, feed>>

\* ----------------------------------------------------------- lifespan shutdown
\* The server stops accepting connections, lets the requests in progress
\* finish, and resumes lifespan after the yield.
Shutdown ==
    /\ lpc = "serving"
    /\ inflight = EmptyBag
    /\ last = NoResponse
    /\ lpc' = "delete_webhook"
    /\ UNCHANGED <<cfg, startups, db, botData, webhook, lastDelete, calls, snapshot, idx,
                   reqVars, pool0, topics, handlers, feed>>

\* DeleteWebhook with the call left out: lifespan ends after the yield.
DeleteWebhookSkipped ==
    /\ lpc = "delete_webhook"
    /\ lpc' = "stopped"
    /\ UNCHANGED <<cfg, startups, db, botData, webhook, lastDelete, calls, snapshot, idx,
                   reqVars, pool0, topics, handlers, feed>>

\* delete_webhook is awaited outside any try block: a failure escapes lifespan.
DeleteWebhook ==
    /\ lpc = "delete_webhook"
    /\ \E ok \in BOOLEAN :
         /\ calls' = Append(calls, Call("delete_webhook", 0, ok))
         /\ webhook' = IF ok THEN "none" ELSE webhook
         /\ lastDelete' = IF ok THEN "ok" ELSE "failed"
         /\ lpc' = IF ok THEN "stopped" ELSE "shutdown_failed"
    /\ UNCHANGED <<cfg, startups, db, botData, snapshot, idx, reqVars, pool0, topics,
                   handlers, feed>>

\* A new process is started (uvicorn.run): the store and the platform keep
\* their state, the process state is fresh.
Restart ==
    /\ lpc \in {"stopped", "shutdown_failed", "aborted"}
    /\ startups < MaxStartups
    /\ startups' = startups + 1
    /\ lpc' = "load"
    /\ botData' = FALSE
    /\ calls' = <<>>
    /\ snapshot' = <<>>
    /\ idx' = 0
    /\ handlers' = <<>>
    /\ UNCHANGED <<cfg, db, webhook, lastDelete, reqVars, pool0, topics, feed>>

\* ------------------------------------------------------------ request steps
JobNames == {"account-check", "daily-cleanup", "unknown-job"}

Headers == {NoHeader, "Bearer S", "Bearer X", "Bearer ", "S"}

Bodies == {"update", "not json", "not an update"}

\* The handler of request q (as suspended so far; a new request is not in the
\* bag) returns or raises: the response goes out.
Reply(q, r, status, end) ==
    /\ inflight' = inflight (-) SetToBag({q})
    /\ last' = Response(r, status, end)

\* The same, for a handler that has not written to the topic records.
Answer(q, r, status, end) ==
    /\ Reply(q, r, status, end)
    /\ UNCHANGED topics

\* The handler of request q suspends at an await, in state r.
Await(q, r) ==
    /\ inflight' = (inflight (-) SetToBag({q})) (+) SetToBag({r})
    /\ UNCHANGED <<last, topics>>

\* The condition of the cron endpoints, negated: the request may run the job.
Authorized(secret, authorization) ==
    /\ secret # ""
    /\ authorization = "Bearer " \o secret

\* The Settings Store's side of clear_old_topics (the database module): the
\* stale records are removed, the others are kept; their number is returned.
StaleTopics(t) == {i \in DOMAIN t : t[i] = "stale"}

clear_old_topics(t) == [i \in DOMAIN t |-> IF t[i] = "stale" THEN "absent" ELSE t[i]]

\* daily_cleanup_job with the store call made a second time after the first.
daily_cleanup_job_twice(q, r) ==
    \E ok \in BOOLEAN :
      LET r1 == [r EXCEPT !.runs = Append(@, "daily-cleanup"), !.store = TRUE,
                          !.clears = @ + 2] IN
      IF ok
      THEN /\ Reply(q, [r1 EXCEPT !.deleted = @ + Cardinality(StaleTopics(topics))],
                    200, "returned")
           /\ topics' = clear_old_topics(clear_old_topics(topics))
      ELSE Answer(q, r1, 500, "raised")

\* daily_cleanup_job: one clear_old_topics call, no await; the count it
\* returns is only logged.
daily_cleanup_job(q, r) ==
    \E ok \in BOOLEAN :
      LET r1 == [r EXCEPT !.runs = Append(@, "daily-cleanup"), !.store = TRUE,
                          !.clears = @ + 1] IN
      IF ok
      THEN /\ Reply(q, [r1 EXCEPT !.deleted = @ + Cardinality(StaleTopics(topics))],
                    200, "returned")
           /\ topics' = clear_old_topics(topics)
      ELSE Answer(q, r1, 500, "raised")

\* main.py, the stuck-account block: one schedule_initial_check per stuck
\* account, gathered.
StuckPhaseMain(q, r) ==
    IF r.stuck = {}
    THEN Answer(q, r, 200, "returned")
    ELSE Await(q, [r EXCEPT !.pc = "gather_schedule", !.pending = r.stuck,
                            !.stuck = {}, !.login = TRUE])

\* bot.py, the stuck-account block: get_all_settings, then
\* run_confirmation_check awaited account by account.
StuckPhaseBot(q, r) ==
    IF r.stuck = {}
    THEN Answer(q, r, 200, "returned")
    ELSE \E ok \in BOOLEAN :
           IF ~ok
           THEN Answer(q, r, 500, "raised")
           ELSE Await(q, [r EXCEPT !.pc = "run_confirmation_check",
                                   !.pending = {MinOf(r.stuck)},
                                   !.stuck = @ \ {MinOf(r.stuck)},
                                   !.login = TRUE])

StuckPhase(q, r) ==
    IF cfg.entry = "main" THEN StuckPhaseMain(q, r) ELSE StuckPhaseBot(q, r)

\* recurring_account_check_job with the reprocessing calls started and not
\* awaited: the job goes on to its end while they run.
recurring_account_check_job_detached(q, r) ==
    LET r1 == [r EXCEPT !.runs = Append(@, "account-check"), !.store = TRUE] IN
    \E ok \in BOOLEAN :
      IF ~ok
      THEN Answer(q, r1, 500, "raised")
      ELSE \E due \in SUBSET Accounts :
             Answer(q, [r1 EXCEPT !.pending = due, !.login = (due # {})], 200, "returned")

\* recurring_account_check_job up to its first await: the two lists are
\* fetched (ok: both fetches returned), and the reprocessing calls are
\* gathered when there are any.
recurring_account_check_job(q, r) ==
    LET r1 == [r EXCEPT !.runs = Append(@, "account-check"), !.store = TRUE] IN
    \E ok \in BOOLEAN :
      IF ~ok
      THEN Answer(q, r1, 500, "raised")
      ELSE \E due \in SUBSET Accounts : \E stuck \in SUBSET (Accounts \ due) :
             IF due # {}
             THEN Await(q, [r1 EXCEPT !.pc = "gather_reprocess", !.pending = due,
                                      !.stuck = stuck, !.login = TRUE])
             ELSE StuckPhase(q, [r1 EXCEPT !.stuck = stuck])

\* cron_endpoint with the second job as the default branch.
cron_endpoint_fallthrough(q, r) ==
    IF ~Authorized(cfg.CRON_SECRET, r.auth)
    THEN Answer(q, r, 401, "rejected")
    ELSE IF r.job = "account-check"
    THEN recurring_account_check_job(q, r)
    ELSE daily_cleanup_job(q, r)

\* main.py: the one route /cron/{job_name}.
cron_endpoint(q, r) ==
    IF ~Authorized(cfg.CRON_SECRET, r.auth)
    THEN Answer(q, r, 401, "rejected")
    ELSE IF r.job = "account-check"
    THEN recurring_account_check_job(q, r)
    ELSE IF r.job = "daily-cleanup"
    THEN daily_cleanup_job(q, r)
    ELSE Answer(q, r, 404, "rejected")

\* bot.py: the route /cron/account-check.
cron_account_check_endpoint(q, r) ==
    IF ~Authorized(cfg.CRON_SECRET, r.auth)
    THEN Answer(q, r, 401, "rejected")
    ELSE recurring_account_check_job(q, r)

\* bot.py: the route /cron/daily-cleanup.
cron_daily_cleanup_endpoint(q, r) ==
    IF ~Authorized(cfg.CRON_SECRET, r.auth)
    THEN Answer(q, r, 401, "rejected")
    ELSE daily_cleanup_job(q, r)

\* bot.py declares two cron routes and no /cron/{job_name}: the router answers
\* any other path 404 before any endpoint runs.
BotRouter(q, r) ==
    IF r.job = "account-check"
    THEN cron_account_check_endpoint(q, r)
    ELSE IF r.job = "daily-cleanup"
    THEN cron_daily_cleanup_endpoint(q, r)
    ELSE Answer(q, r, 404, "rejected")

\* last describes the step that has just answered a request: the response is
\* written out before the event loop runs another handler step.
Quiet == last = NoResponse

SendResponse ==
    /\ ~Quiet
    /\ last' = NoResponse
    /\ UNCHANGED <<lifeVars, inflight, pool0, topics, feed>>

CanAccept ==
    /\ lpc = "serving"
    /\ Quiet
    /\ BagCardinality(inflight) < MaxInFlight

\* POST /cron/<job>, up to the handler's first await.
CronRequest ==
    /\ CanAccept
    /\ \E job \in JobNames, auth \in Headers :
         LET r == Request("cron", job, auth, "") IN
         IF cfg.entry = "main" THEN cron_endpoint(r, r) ELSE BotRouter(r, r)
    /\ UNCHANGED <<lifeVars, pool0, feed>>

\* What gather does when one of the awaited calls resolves: it raises at the
\* first failure, leaving the other calls running, and returns when the last
\* call has returned.
GatherStep(pending, a, ok) ==
    IF ~ok THEN "raise"
    ELSE IF pending = {a} THEN "return"
    ELSE "wait"

\* A reprocess_account call of a suspended job resolves.
ReprocessResolved ==
    /\ Quiet
    /\ \E q \in BagToSet(inflight) :
         /\ q.pc = "gather_reprocess"
         /\ \E a \in q.pending, ok \in BOOLEAN :
              LET r == [q EXCEPT !.pending = @ \ {a},
                                 !.failed = IF ok THEN @ ELSE @ \cup {a}]
                  g == GatherStep(q.pending, a, ok)
              IN
              IF g = "raise" THEN Answer(q, r, 500, "raised")
              ELSE IF g = "return" THEN StuckPhase(q, r)
              ELSE Await(q, r)
    /\ UNCHANGED <<lifeVars, pool0, feed>>

\* main.py: a schedule_initial_check call of a suspended job resolves.
ScheduleResolved ==
    /\ Quiet
    /\ \E q \in BagToSet(inflight) :
         /\ q.pc = "gather_schedule"
         /\ \E a \in q.pending, ok \in BOOLEAN :
              LET r == [q EXCEPT !.pending = @ \ {a},
                                 !.failed = IF ok THEN @ ELSE @ \cup {a}]
                  g == GatherStep(q.pending, a, ok)
              IN
              IF g = "raise" THEN Answer(q, r, 500, "raised")
              ELSE IF g = "return" THEN Answer(q, r, 200, "returned")
              ELSE Await(q, r)
    /\ UNCHANGED <<lifeVars, pool0, feed>>

\* bot.py: the awaited run_confirmation_check resolves; the loop goes on to
\* the next stuck account.
ConfirmationResolved ==
    /\ Quiet
    /\ \E q \in BagToSet(inflight) :
         /\ q.pc = "run_confirmation_check"
         /\ \E a \in q.pending, ok \in BOOLEAN :
              LET r == [q EXCEPT !.pending = {},
                                 !.failed = IF ok THEN @ ELSE @ \cup {a}]
              IN
              IF ~ok THEN Answer(q, r, 500, "raised")
              ELSE IF r.stuck = {} THEN Answer(q, r, 200, "returned")
              ELSE Await(q, [r EXCEPT !.pending = {MinOf(r.stuck)},
                                      !.stuck = @ \ {MinOf(r.stuck)}])
    /\ UNCHANGED <<lifeVars, pool0, feed>>

\* ParseFails with only request.json() checking the body.
ParseFailsOnlyJson(body) == body = "not json"

\* DispatchStatus with the failure of process_update answered like a success.
DispatchStatusAlwaysOk(ok) == 200

\* request.json() and Update.de_json raise on a body that is not an update.
ParseFails(body) == body # "update"

\* The status handle_telegram_update returns once process_update has returned
\* (ok) or raised.
DispatchStatus(ok) == IF ok THEN 200 ELSE 500

\* POST /: the handler starts and awaits request.json().
WebhookRequest ==
    /\ CanAccept
    /\ \E body \in Bodies :
         LET r == Request("webhook", "", NoHeader, body) IN
         Await(r, [r EXCEPT !.pc = "request.json"])
    /\ UNCHANGED <<lifeVars, pool0, feed>>

\* The body has been read: parse it, and hand the update to process_update.
WebhookParse ==
    /\ Quiet
    /\ \E q \in BagToSet(inflight) :
         /\ q.pc = "request.json"
         /\ IF ParseFails(q.body)
            THEN Answer(q, q, 500, "raised")
            ELSE Await(q, [q EXCEPT !.pc = "process_update",
                                    !.runs = Append(@, "process_update")])
    /\ UNCHANGED <<lifeVars, pool0, feed>>

\* process_update returns, having run the handlers it resolved for the
\* update, or raises, having run the first n of them.  What the update is
\* matters from here on only.
WebhookDispatched ==
    /\ Quiet
    /\ \E q \in BagToSet(inflight) :
         /\ q.pc = "process_update"
         /\ \E matches \in Delivered(feed), ok \in BOOLEAN :
              LET resolved == process_update(handlers, matches) IN
              \E n \in 0..Len(resolved) :
                /\ ok => n = Len(resolved)
                /\ Answer(q, [q EXCEPT !.matches = matches,
                                       !.fired = SubSeq(resolved, 1, n)],
                          DispatchStatus(ok), IF ok THEN "returned" ELSE "raised")
    /\ UNCHANGED <<lifeVars, pool0, feed>>

Startup ==
    \/ LoadModule
    \/ InitDb
    \/ SyncSettings
    \/ AddAdmin
    \/ LoadContext
    \/ SeedCredential
    \/ DefaultMenu
    \/ GetAllAdmins
    \/ PublishAdminMenu
    \/ SetWebhook

Stop ==
    \/ Shutdown
    \/ DeleteWebhook

Traffic ==
    \/ CronRequest
    \/ ReprocessResolved
    \/ ScheduleResolved
    \/ ConfirmationResolved
    \/ WebhookRequest
    \/ WebhookParse
    \/ WebhookDispatched
    \/ SendResponse

\* A deployment whose store starts without admins and credentials and whose
\* configuration names an initial admin.
InitFresh ==
    /\ Init
    /\ cfg.INITIAL_ADMIN_ID = 1
    /\ db.admins = {}
    /\ db.creds = 0

\* The same, with no support admin set, no topic record old enough to be
\* cleared and one kind of update delivered.
InitDeployed ==
    /\ InitFresh
    /\ db.support = <<>>
    /\ StaleTopics(topics) = {}
    /\ feed = "plain"

Next == Startup \/ Stop \/ Traffic

\* One process run under traffic.
Spec == InitDeployed /\ [][Next]_vars

\* One process run under cron triggers only; the topic records are numbered
\* by age, any number of the oldest being stale.
CronTraffic ==
    \/ CronRequest
    \/ ReprocessResolved
    \/ ScheduleResolved
    \/ ConfirmationResolved
    \/ SendResponse

NextCron == Startup \/ Stop \/ CronTraffic

InitCron ==
    /\ InitFresh
    /\ db.support = <<>>
    /\ \A i \in TopicIds, j \in TopicIds :
         (i < j /\ topics[j] = "stale") => topics[i] = "stale"
    /\ feed = "plain"

SpecCron == InitCron /\ [][NextCron]_vars

\* Process runs one after the other, over every initial store, without
\* traffic.
InitLifecycle ==
    /\ Init
    /\ StaleTopics(topics) = {}
    /\ feed = "plain"

Lifecycle == Startup \/ Stop \/ Restart

SpecLifecycle == InitLifecycle /\ [][Lifecycle]_vars

\* One process run under webhook traffic only, over every update that
\* satisfies at most MaxMatches predicates.
InitDispatch ==
    /\ InitFresh
    /\ StaleTopics(topics) = {}
    /\ feed = "all"

WebhookTraffic ==
    \/ WebhookRequest
    \/ WebhookParse
    \/ WebhookDispatched
    \/ SendResponse

NextDispatch == Startup \/ Stop \/ WebhookTraffic

SpecDispatch == InitDispatch /\ [][NextDispatch]_vars

\* ================================================================== claims
KnownJobs == {"account-check", "daily-cleanup"}

\* The answered request carried 'Bearer ' followed by the configured secret.
PresentsSecret(r) ==
    /\ cfg.CRON_SECRET # ""
    /\ r.auth = "Bearer " \o cfg.CRON_SECRET

RanNothing(r) == r.runs = <<>> /\ ~r.store /\ ~r.login

\* C1: every cron request without the exact secret (secret unset or empty,
\* header missing, header not 'Bearer ' + secret) is answered 401, and it
\* starts no job: no Settings Store call, no login-module call.
C1_UnauthorizedIs401 ==
    (last.kind = "cron" /\ ~PresentsSecret(last))
        => (last.status = 401 /\ RanNothing(last))

\* What the code does for the requests of C1: no job, store call or login
\* call in either entry point; 401 from every endpoint that runs; 404 only
\* from bot.py, for a job name it declares no route for.
C1_FailsClosed ==
    (last.kind = "cron" /\ ~PresentsSecret(last))
        => /\ RanNothing(last)
           /\ last.end = "rejected"
           /\ IF cfg.entry = "bot" /\ last.job \notin KnownJobs
              THEN last.status = 404
              ELSE last.status = 401

\* A case of C1_FailsClosed: no secret is configured and the header is the
\* bare prefix, which equals 'Bearer ' followed by the empty secret.
C1_RoutedUnauthorized ==
    /\ last.kind = "cron"
    /\ cfg.CRON_SECRET = ""
    /\ last.auth = "Bearer "
    /\ last.status = 401

\* C2: a cron request with the correct secret and a job name other than
\* 'account-check' and 'daily-cleanup' is answered 404 and runs no job.
C2_UnknownJobIs404 ==
    (last.kind = "cron" /\ PresentsSecret(last) /\ last.job \notin KnownJobs)
        => (last.status = 404 /\ RanNothing(last))

C2_Witness ==
    /\ last.kind = "cron"
    /\ cfg.entry = "main"
    /\ PresentsSecret(last)
    /\ last.job = "unknown-job"
    /\ last.status = 404

\* C3: an authorized cron request naming a known job runs that job, and no
\* other, exactly once; it is answered 200 only when the job has returned
\* with none of its collaborator calls outstanding and no fetched account
\* left unhandled, and it is not answered while the job is suspended.
C3_JobRunsOnceBefore200 ==
    /\ (last.kind = "cron" /\ PresentsSecret(last) /\ last.job \in KnownJobs)
        => /\ last.runs = <<last.job>>
           /\ last.status \in {200, 500}
           /\ last.status = 200 =>
                (last.end = "returned" /\ last.pending = {} /\ last.stuck = {})
    /\ \A q \in BagToSet(inflight) :
         q.kind = "cron" =>
            /\ PresentsSecret(q)
            /\ q.runs = <<"account-check">>
            /\ q.job = "account-check"
            /\ q.pending # {}

C3_Witness ==
    /\ last.kind = "cron"
    /\ last.job = "account-check"
    /\ last.status = 200
    /\ last.login
    /\ last.runs = <<"account-check">>

\* C4: a webhook request is answered 200 exactly when parsing and
\* process_update have both returned, and 500 when either raised;
\* process_update is invoked at most once per request, and the process is
\* still serving after either answer.
C4_WebhookStatus ==
    /\ last.kind = "webhook" =>
         /\ last.status \in {200, 500}
         /\ last.status = 200 <=> last.end = "returned"
         /\ last.end = "returned" =>
              (last.body = "update" /\ last.runs = <<"process_update">>)
         /\ Len(last.runs) <= 1
         /\ lpc = "serving"
    /\ \A q \in BagToSet(inflight) : q.kind = "webhook" => Len(q.runs) <= 1

C4_Witness ==
    /\ last.kind = "webhook"
    /\ last.status = 500
    /\ last.runs = <<"process_update">>
    /\ lpc = "serving"

\* C5 as claimed: a malformed body posted to the webhook endpoint is answered
\* with a 4xx status and invokes no handler.
C5_MalformedIs4xx ==
    (last.kind = "webhook" /\ last.body # "update")
        => (last.status \in 400..499 /\ last.runs = <<>>)

\* C5 as amended: a malformed body posted to the webhook endpoint is answered
\* 500 and process_update is never invoked for it.
C5_MalformedIs500 ==
    /\ (last.kind = "webhook" /\ last.body # "update")
        => (last.status = 500 /\ last.runs = <<>>)
    /\ \A q \in BagToSet(inflight) :
         (q.kind = "webhook" /\ q.body # "update") => q.runs = <<>>

C5_Witness ==
    /\ last.kind = "webhook"
    /\ last.body = "not an update"
    /\ last.status = 500
    /\ last.runs = <<>>

Down == {"stopped", "shutdown_failed", "aborted"}

\* C6 as claimed: while the process serves, a webhook URL is registered;
\* while it is down, none is.
C6_OneWhileLiveNoneWhileDown ==
    /\ lpc = "serving" => webhook # "none"
    /\ lpc \in Down => webhook = "none"

\* C6 as amended: while the process serves, the webhook URL is registered;
\* while it is down none is registered unless the most recent delete_webhook
\* call failed, and none is registered after a shutdown whose delete_webhook
\* returned.
C6_NoneWhileDownUnlessDeleteFailed ==
    /\ lpc = "serving" => webhook = WEBHOOK_URL
    /\ (lpc \in Down /\ webhook # "none") => lastDelete = "failed"
    /\ lpc = "stopped" => webhook = "none"

C6_Witness ==
    /\ lpc = "stopped"
    /\ startups = 2
    /\ lastDelete = "ok"
    /\ webhook = "none"
    /\ NCalls("set_webhook") = 1

IsChatPublish(c) == c.op = "set_my_commands" /\ c.arg.scope = "chat"

Published == SelectSeq(calls, IsChatPublish)

PublishedIds == [i \in 1..Len(Published) |-> Published[i].arg.chat_id]

MenuFailed == \E i \in DOMAIN calls : IsChatPublish(calls[i]) /\ ~calls[i].ok

\* C7: a process that has reached the serving state has called set_webhook
\* exactly once, with drop_pending_updates=True and every update type
\* allowed; once its shutdown has run it has called delete_webhook exactly
\* once, and not before, whether or not admin menu publications failed.
C7_SetOnceDeleteOnce ==
    /\ lpc \in {"serving", "delete_webhook", "stopped", "shutdown_failed"} =>
         /\ NCalls("set_webhook") = 1
         /\ \A i \in Calls("set_webhook") :
              /\ calls[i].ok
              /\ calls[i].arg.url = WEBHOOK_URL
              /\ calls[i].arg.drop_pending_updates = TRUE
              /\ calls[i].arg.allowed_updates = ALL_TYPES
    /\ lpc \in {"stopped", "shutdown_failed"} => NCalls("delete_webhook") = 1
    /\ lpc \notin {"stopped", "shutdown_failed"} => NCalls("delete_webhook") = 0

C7_Witness ==
    /\ lpc = "stopped"
    /\ MenuFailed
    /\ NCalls("set_webhook") = 1
    /\ NCalls("delete_webhook") = 1

\* The calls of startup steps 1 to 5 and 7.
FatalOps ==
    {"init_db", "set_setting", "add_admin", "log_admin_action", "get_all_settings",
     "get_countries_config", "get_all_api_credentials", "add_api_credential",
     "set_webhook"}

\* C8: when a call of startup steps 1 to 5 or 7 raises, it is the last call
\* the process makes and the process is aborted: no later step runs and the
\* serving state is not reached.
C8_FatalStepAborts ==
    \A i \in DOMAIN calls :
        (~calls[i].ok /\ calls[i].op \in FatalOps)
            => (i = Len(calls) /\ lpc = "aborted")

C8_Witness ==
    /\ lpc = "aborted"
    /\ calls # <<>>
    /\ calls[Len(calls)].op = "add_api_credential"
    /\ ~calls[Len(calls)].ok
    /\ webhook = "none"

\* C9: the admin menu is published to the admins of the list returned by
\* get_all_admins, in order, each once; after the loop every admin of the
\* list has been tried, whatever publishes failed; a failed publish never
\* aborts startup, which goes on to set_webhook.
C9_EveryAdminTried ==
    /\ Len(Published) = idx
    /\ PublishedIds = SubSeq(snapshot, 1, idx)
    /\ (lpc \in {"set_webhook", "serving", "delete_webhook", "stopped", "shutdown_failed"}
          \/ Called("set_webhook"))
         => (PublishedIds = snapshot /\ snapshot = SortedSeq(db.admins))
    /\ (lpc = "aborted" /\ calls # <<>>) => ~IsChatPublish(calls[Len(calls)])

C9_Witness ==
    /\ lpc = "serving"
    /\ Len(snapshot) >= 2
    /\ IsChatPublish(calls[Len(calls) - 2])
    /\ ~calls[Len(calls) - 2].ok
    /\ PublishedIds = snapshot

SeedDone ==
    /\ \E i \in Calls("get_all_api_credentials") : calls[i].ok
    /\ ~Failed("add_api_credential")

\* C10: a startup that finds no credential adds exactly one, a startup that
\* finds one or more adds none; so the pool holds max(initial size, 1)
\* credentials once any startup has passed the seeding step, and never
\* anything but its initial size or that.
C10_SeedsOneWhenEmpty ==
    /\ db.creds \in {pool0, Max(pool0, 1)}
    /\ \A i \in Calls("get_all_api_credentials") :
         calls[i].ok =>
            IF calls[i].arg = 0
            THEN /\ i < Len(calls)
                 /\ calls[i + 1].op = "add_api_credential"
                 /\ db.creds = IF calls[i + 1].ok THEN 1 ELSE 0
            ELSE /\ ~Called("add_api_credential")
                 /\ db.creds = calls[i].arg
    /\ SeedDone => db.creds = Max(pool0, 1)

C10_Witness ==
    /\ pool0 = 0
    /\ startups = 2
    /\ lpc = "serving"
    /\ db.creds = 1
    /\ ~Called("add_api_credential")

\* The answered request ran the account-check job.
RanAccountCheck(r) == r.kind = "cron" /\ r.runs = <<"account-check">>

\* C11: every external call of a phase of the account-check job is started
\* when the phase starts (none of the N accounts waits for another's call),
\* and the job ends, by a return or otherwise, only when every call it
\* started has resolved, whatever the calls' outcomes.
C11_NoEarlyReturn ==
    /\ RanAccountCheck(last) => last.pending = {}
    /\ \A q \in BagToSet(inflight) :
         q.pc \in {"gather_schedule", "run_confirmation_check"} => q.stuck = {}

\* C12: an account whose external call raised never fails the job: the
\* request is answered 200 from the job's return, with every other call of
\* the phase resolved and the stuck accounts handled.
C12_AccountFailureNeverFailsJob ==
    (RanAccountCheck(last) /\ last.failed # {})
        => /\ last.status = 200
           /\ last.end = "returned"
           /\ last.pending = {}
           /\ last.stuck = {}

\* The answered request is an authorized trigger of the daily cleanup.
CleanupTrigger(r) ==
    /\ r.kind = "cron"
    /\ r.job = "daily-cleanup"
    /\ PresentsSecret(r)

\* C13: the step that answers an authorized daily-cleanup trigger has called
\* clear_old_topics exactly once and answers 200 when the call returned; when
\* no topic record is stale at that step (as for the second of two successive
\* triggers), it deletes nothing and leaves the Settings Store as it was.
C13_CleanupOnceIdempotent ==
    [][(last = NoResponse /\ CleanupTrigger(last')) =>
          /\ last'.runs = <<"daily-cleanup">>
          /\ last'.clears = 1
          /\ last'.status = IF last'.end = "returned" THEN 200 ELSE 500
          /\ StaleTopics(topics) = {} =>
                (last'.deleted = 0 /\ topics' = topics /\ db' = db)]_vars

\* The second of two triggers: an earlier one has removed a record, this one
\* found nothing stale, and the record that was not stale is still there.
C13_Witness ==
    /\ CleanupTrigger(last)
    /\ last.status = 200
    /\ last.clears = 1
    /\ last.deleted = 0
    /\ \E i \in TopicIds : topics[i] = "absent"
    /\ \E i \in TopicIds : topics[i] = "fresh"

\* The handlers registered in group g whose predicate the update of the
\* answered request r satisfies.
MatchedIn(r, g) ==
    {handlers[i].name : i \in {j \in DOMAIN handlers : handlers[j].group = g}}
        \cap r.matches

GroupOf(name) == handlers[CHOOSE i \in DOMAIN handlers : handlers[i].name = name].group

C15_MenuFailureNonFatal ==
    \A i \in DOMAIN calls :
        (calls[i].op = "set_my_commands" /\ ~calls[i].ok)
            => ~(lpc = "aborted" /\ i = Len(calls))

\* C16: shutdown calls delete_webhook, and whatever the outcome of the call
\* the shutdown sequence ends normally, with no error leaving it.
C16_ShutdownBestEffort ==
    /\ lpc \in {"stopped", "shutdown_failed"} => Called("delete_webhook")
    /\ Called("delete_webhook") => lpc = "stopped"

\* C17: in both entry points the stuck accounts a job has fetched are handed
\* to schedule_initial_check, all of them at once when the stuck phase
\* starts, and no job awaits run_confirmation_check.
C17_StuckRescheduled ==
    \A q \in BagToSet(inflight) :
        /\ q.pc # "run_confirmation_check"
        /\ q.stuck # {} => q.pc = "gather_reprocess"

\* What the code does for the stuck accounts of C17: main.py reschedules as
\* claimed, bot.py alone runs the confirmation check.
C17_MainReschedules == cfg.entry = "main" => C17_StuckRescheduled

\* C18: in both entry points a cron request without the exact secret is
\* answered 401 whatever the job name, so 404 only answers a request that
\* carries the secret.
C18_AuthBeforeNotFound ==
    last.kind = "cron" =>
        /\ last.status = 404 => PresentsSecret(last)
        /\ ~PresentsSecret(last) => last.status = 401

\* The calls into the Settings Store other than init_db.
StoreOps ==
    {"get_setting", "set_setting", "add_admin", "log_admin_action", "get_all_settings",
     "get_countries_config", "get_all_api_credentials", "add_api_credential",
     "get_all_admins"}

\* C19: every call a process makes into the Settings Store comes after an
\* init_db call of that process that has returned.
C19_InitDbFirst ==
    \A i \in DOMAIN calls :
        calls[i].op \in StoreOps
            => \E j \in 1..(i - 1) : calls[j].op = "init_db" /\ calls[j].ok

\* What the code does for the calls of C19: the read of 'support_id' at
\* import is the only store call a process makes before its init_db.
C19_OnlyImportReadPrecedes ==
    \A i \in DOMAIN calls :
        (calls[i].op \in StoreOps
            /\ ~\E j \in 1..(i - 1) : calls[j].op = "init_db" /\ calls[j].ok)
            => (i = 1 /\ calls[i].op = "get_setting")

\* The accounts request q has handed to the collaborator call op and is
\* awaiting.
InFlightCalls(q, op) ==
    IF (op = "reprocess_account" /\ q.pc = "gather_reprocess")
         \/ (op = "schedule_initial_check" /\ q.pc = "gather_schedule")
    THEN q.pending
    ELSE {}

\* C20: among the account-check jobs suspended at the same time, no account
\* is awaited by two reprocess_account calls or by two
\* schedule_initial_check calls.
C20_NoDoubleHandOff ==
    \A op \in {"reprocess_account", "schedule_initial_check"} :
       \A q1 \in BagToSet(inflight), q2 \in BagToSet(inflight) :
          (q1 # q2 \/ CopiesIn(q1, inflight) > 1)
              => InFlightCalls(q1, op) \cap InFlightCalls(q2, op) = {}

====
